---- MODULE Spec2Model ----
(***************************************************************************)
(* Model of gitui's help popup, src/components/help.rs (HelpComponent).    *)
(*                                                                         *)
(* State: the fields of HelpComponent (cmds, visible, selection), the      *)
(* external hash function asyncgit::hash restricted to the group keys in   *)
(* use, and a record of the last call with its arguments and return value. *)
(*                                                                         *)
(* Four specifications:                                                    *)
(*   Spec      the component driven by set_cmds / event / show / hide /    *)
(*             draw                                                        *)
(*   SpecAgg   set_cmds as a function of its input batch                   *)
(*   SpecCmds  commands() as a function of visible, out and force_all      *)
(*   SpecDraw  a shown popup over long lists: moves and draw               *)
(***************************************************************************)
EXTENDS Integers, Sequences, FiniteSets, TLC

VARIABLES
    cmds,       \* HelpComponent.cmds : Vec<CommandInfo>
    visible,    \* HelpComponent.visible : bool
    selection,  \* HelpComponent.selection : u16
    hashfn,     \* asyncgit::hash on group keys (external, deterministic)
    input,      \* the batch handed to set_cmds (SpecAgg)
    out,        \* the &mut Vec<CommandInfo> handed to commands() (SpecCmds)
    call        \* the last call: operation, arguments, return value

vars == <<cmds, visible, selection, hashfn, input, out, call>>

----------------------------------------------------------------------------
(* Bounds *)

MaxBatch == 3      \* longest batch handed to set_cmds in SpecAgg
MaxCmds == 3       \* longest batch handed to set_cmds in Spec
MaxOut == 3        \* longest prior content of out in SpecCmds
MaxEntries == 13   \* longest aggregated list in SpecDraw

(* Program constants *)

U16Max == 65535    \* selection is a u16
HelpOpenOrder == 99  \* .order(99) of the "open help" command
PopupHeight == 24    \* SIZE.1
ThresholdDivisor == 3  \* scroll_threshold = SIZE.1 / 3
VerticalMargin == 1  \* .vertical_margin(1)
FooterRows == 1      \* Constraint::Length(1)

----------------------------------------------------------------------------
(* Data *)

Names == {"A", "B"}
Descs == {"d", "e"}
Groups == {"X", "Y"}
Orders == {0, 1}

\* &'static str compares bytewise; the strings in use, in ascending order
StrOrder == <<"A", "B", "X", "Y", "d", "e">>

StrRank(s) == CHOOSE i \in DOMAIN StrOrder : StrOrder[i] = s

StrLess(a, b) == StrRank(a) < StrRank(b)

BoolLess(a, b) == (~a) /\ b

\* CommandText: the key e.text of the sorts and of the dedup.  The second
\* description is carried by one label only (A in group X), which keeps the
\* batches few.
CommandText ==
    {t \in [name : Names, desc : Descs, group : Groups, hide_help : BOOLEAN] :
        t.desc = "e" => (t.name = "A" /\ t.group = "X" /\ ~t.hide_help)}

\* CommandInfo, the fields help.rs reads: text and order
CommandInfo == [text : CommandText, order : Orders]

\* derived Ord of CommandText: lexicographic over its fields
TextLess(a, b) ==
    \/ StrLess(a.name, b.name)
    \/ /\ a.name = b.name
       /\ \/ StrLess(a.desc, b.desc)
          \/ /\ a.desc = b.desc
             /\ \/ StrLess(a.group, b.group)
                \/ /\ a.group = b.group
                   /\ BoolLess(a.hide_help, b.hide_help)

\* the descriptors the other components report in Spec: the three of the
\* ordering scenario (A and B in group X with ranks 1 and 0, C-like entry in
\* group Y) and one that is hidden from help
CmdPool ==
    { [text |-> [name |-> "A", desc |-> "d", group |-> "X", hide_help |-> FALSE], order |-> 1],
      [text |-> [name |-> "B", desc |-> "d", group |-> "X", hide_help |-> FALSE], order |-> 0],
      [text |-> [name |-> "A", desc |-> "d", group |-> "Y", hide_help |-> FALSE], order |-> 0],
      [text |-> [name |-> "B", desc |-> "d", group |-> "Y", hide_help |-> TRUE], order |-> 0] }

\* two hash values: the two group keys hash apart, in either order, or collide
HashVals == {0, 1}

HashFns == [Groups -> HashVals]

\* asyncgit::hash(&e.text.group)
hash(g) == hashfn[g]

SeqsUpTo(S, n) == UNION {[1..k -> S] : k \in 0..n}

----------------------------------------------------------------------------
(* set_cmds *)

\* mutant: the filter keeps everything
FilterNothing(s) == s

\* .filter(|e| !e.text.hide_help)
FilterHidden(s) == SelectSeq(s, LAMBDA e : ~e.text.hide_help)

\* mutant: the sort by e.text puts every element in front
InsertFirst(t, x) == <<x>> \o t

\* one step of a stable sort: x goes behind every element not greater than it
InsertByText(t, x) ==
    SelectSeq(t, LAMBDA y : ~TextLess(x.text, y.text)) \o <<x>>
        \o SelectSeq(t, LAMBDA y : TextLess(x.text, y.text))

RECURSIVE SortByText(_)
\* self.cmds.sort_by_key(|e| e.text)   (stable)
SortByText(s) ==
    IF s = <<>> THEN <<>>
    ELSE InsertByText(SortByText(SubSeq(s, 1, Len(s) - 1)), s[Len(s)])

RECURSIVE DedupByText(_)
\* self.cmds.dedup_by_key(|e| e.text): of consecutive equal keys the first stays
DedupByText(s) ==
    IF Len(s) <= 1 THEN s
    ELSE LET front == DedupByText(SubSeq(s, 1, Len(s) - 1))
             e == s[Len(s)]
         IN  IF front[Len(front)].text = e.text THEN front ELSE Append(front, e)

InsertByHash(t, x) ==
    SelectSeq(t, LAMBDA y : ~(hash(x.text.group) < hash(y.text.group))) \o <<x>>
        \o SelectSeq(t, LAMBDA y : hash(x.text.group) < hash(y.text.group))

RECURSIVE SortByHash(_)
\* self.cmds.sort_by_key(|e| hash(&e.text.group))   (stable)
SortByHash(s) ==
    IF s = <<>> THEN <<>>
    ELSE InsertByHash(SortByHash(SubSeq(s, 1, Len(s) - 1)), s[Len(s)])

\* mutant: the sort by e.text before the dedup is left out
AggregateUnsorted(batch) == SortByHash(DedupByText(FilterHidden(batch)))

\* the value set_cmds stores in self.cmds
Aggregate(batch) == SortByHash(DedupByText(SortByText(FilterHidden(batch))))

set_cmds(batch) ==
    /\ cmds' = Aggregate(batch)
    /\ call' = [op |-> "set_cmds"]
    /\ UNCHANGED <<visible, selection, hashfn, input, out>>

----------------------------------------------------------------------------
(* move_selection, hide, show, event *)

SaturatingAdd(x) == IF x >= U16Max THEN U16Max ELSE x + 1

\* mutant: the subtraction wraps around
WrappingSub(x) == IF x <= 0 THEN U16Max ELSE x - 1

SaturatingSub(x) == IF x <= 0 THEN 0 ELSE x - 1

Max(a, b) == IF a >= b THEN a ELSE b

Min(a, b) == IF a <= b THEN a ELSE b

\* mutant: a cursor beyond the list is left where it is
MovedSelectionKeepsStale(sel, len, inc) ==
    LET stepped == IF inc THEN SaturatingAdd(sel) ELSE SaturatingSub(sel)
        max == SaturatingSub(len)
    IN  IF sel <= max THEN Min(Max(stepped, 0), max) ELSE sel

\* the value move_selection leaves in self.selection
MovedSelection(sel, len, inc) ==
    LET stepped == IF inc THEN SaturatingAdd(sel) ELSE SaturatingSub(sel)
        new_selection == Max(stepped, 0)
        max == SaturatingSub(len)
    IN  IF max <= U16Max THEN Min(new_selection, max) ELSE sel

Events == {"EXIT_POPUP", "MOVE_DOWN", "MOVE_UP", "OPEN_HELP", "OTHER_KEY", "NOT_A_KEY"}

KeyEvents == Events \ {"NOT_A_KEY"}

\* mutant: the move keys act whether or not the popup is visible
EventSelectionAnyState(vis, sel, len, ev) ==
    IF ev = "MOVE_DOWN" THEN MovedSelection(sel, len, TRUE)
    ELSE IF ev = "MOVE_UP" THEN MovedSelection(sel, len, FALSE)
    ELSE sel

\* mutant: a shown popup consumes only the keys it acts on
EventResultOwnKeys(vis, ev) ==
    IF vis THEN ev \in {"EXIT_POPUP", "MOVE_DOWN", "MOVE_UP"} ELSE ev = "OPEN_HELP"

\* mutant: opening the popup puts the cursor back to the top
EventSelectionResetOnOpen(vis, sel, len, ev) ==
    IF vis /\ ev = "MOVE_DOWN" THEN MovedSelection(sel, len, TRUE)
    ELSE IF vis /\ ev = "MOVE_UP" THEN MovedSelection(sel, len, FALSE)
    ELSE IF ~vis /\ ev = "OPEN_HELP" THEN 0
    ELSE sel

\* visible after event(ev)
EventVisible(vis, ev) ==
    IF vis THEN (IF ev = "EXIT_POPUP" THEN FALSE ELSE vis)
    ELSE (IF ev = "OPEN_HELP" THEN TRUE ELSE vis)

\* selection after event(ev)
EventSelection(vis, sel, len, ev) ==
    IF vis /\ ev = "MOVE_DOWN" THEN MovedSelection(sel, len, TRUE)
    ELSE IF vis /\ ev = "MOVE_UP" THEN MovedSelection(sel, len, FALSE)
    ELSE sel

\* the bool event(ev) returns
EventResult(vis, ev) == IF vis THEN TRUE ELSE ev = "OPEN_HELP"

event(ev) ==
    /\ visible' = EventVisible(visible, ev)
    /\ selection' = EventSelection(visible, selection, Len(cmds), ev)
    /\ call' = [op |-> "event", ev |-> ev, ret |-> EventResult(visible, ev)]
    /\ UNCHANGED <<cmds, hashfn, input, out>>

hide ==
    /\ visible' = FALSE
    /\ call' = [op |-> "hide"]
    /\ UNCHANGED <<cmds, selection, hashfn, input, out>>

show ==
    /\ visible' = TRUE
    /\ call' = [op |-> "show"]
    /\ UNCHANGED <<cmds, selection, hashfn, input, out>>

----------------------------------------------------------------------------
(* get_text *)

\* mutant: the entries of a group stay in stored order
InsertLast(t, x) == Append(t, x)

InsertByOrder(t, x) ==
    SelectSeq(t, LAMBDA y : ~(x.order < y.order)) \o <<x>>
        \o SelectSeq(t, LAMBDA y : x.order < y.order)

RECURSIVE SortByOrder(_)
\* group.sorted_by_key(|e| e.order)   (stable)
SortByOrder(s) ==
    IF s = <<>> THEN <<>>
    ELSE InsertByOrder(SortByOrder(SubSeq(s, 1, Len(s) - 1)), s[Len(s)])

RECURSIVE RunLen(_, _)
\* group_by(|e| e.text.group): length of the leading run of entries with key g
RunLen(s, g) ==
    IF s = <<>> \/ s[1].text.group # g THEN 0
    ELSE 1 + RunLen(Tail(s), g)

\* the Text::Styled item of a group header
HeaderText(key) == [kind |-> "header", key |-> key]

\* the Text::Styled item of one command
EntryText(e, is_selected) ==
    [kind |-> "entry",
     marker |-> IF is_selected THEN ">" ELSE " ",
     cmd |-> e,
     desc_line |-> is_selected,
     selected_style |-> is_selected]

RECURSIVE GetTextFrom(_, _, _)
\* the items get_text pushes for the entries s, `processed` entries done before
GetTextFrom(s, sel, processed) ==
    IF s = <<>> THEN <<>>
    ELSE LET key == s[1].text.group
             n == RunLen(s, key)
             group == SortByOrder(SubSeq(s, 1, n))
         IN  <<HeaderText(key)>>
                 \o [i \in 1..n |-> EntryText(group[i], sel = processed + (i - 1))]
                 \o GetTextFrom(SubSeq(s, n + 1, Len(s)), sel, processed + n)

\* mutant: the count of processed entries starts at 1
GetTextCountsFromOne(list, sel) == GetTextFrom(list, sel, 1)

GetText(list, sel) == GetTextFrom(list, sel, 0)

----------------------------------------------------------------------------
(* draw *)

\* the lines of one Text::Styled item: every "\n" of its string ends a line
ItemLines(item) ==
    IF item.kind = "header" THEN <<[kind |-> "header", selected |-> FALSE]>>
    ELSE <<[kind |-> "entry", selected |-> item.selected_style]>>
             \o (IF item.desc_line
                 THEN <<[kind |-> "desc", selected |-> item.selected_style]>>
                 ELSE <<>>)

RECURSIVE TextLines(_)
\* the lines of Paragraph::new(self.get_text().iter())
TextLines(txt) ==
    IF txt = <<>> THEN <<>> ELSE ItemLines(Head(txt)) \o TextLines(Tail(txt))

\* let scroll_threshold = SIZE.1 / 3
ScrollThreshold == PopupHeight \div ThresholdDivisor

\* self.selection.saturating_sub(scroll_threshold)
Scroll(sel) == IF sel > ScrollThreshold THEN sel - ScrollThreshold ELSE 0

\* height of chunks[0]: the popup less its border rows and the footer row
\* (the frame is at least as high as the popup)
ContentRows == PopupHeight - 2 * VerticalMargin - FooterRows

\* the lines Paragraph paints into chunks[0] under .scroll(scroll)
Painted(lines, scroll, rows) ==
    SubSeq(lines, scroll + 1, Min(Len(lines), scroll + rows))

\* what draw hands to the frame: nothing when hidden
Drawn(list, vis, sel) ==
    IF vis
    THEN [op |-> "draw", shown |-> TRUE, scroll |-> Scroll(sel),
          text |-> GetText(list, sel),
          painted |-> Painted(TextLines(GetText(list, sel)), Scroll(sel), ContentRows)]
    ELSE [op |-> "draw", shown |-> FALSE, scroll |-> 0, text |-> <<>>,
          painted |-> <<>>]

draw ==
    /\ call' = Drawn(cmds, visible, selection)
    /\ UNCHANGED <<cmds, visible, selection, hashfn, input, out>>

----------------------------------------------------------------------------
(* commands *)

\* the commands of the other components, pushed to out before the help popup
OtherTexts == {"COMMIT_OPEN", "STAGE_ITEM", "QUIT"}

\* CommandInfo::new(text, enabled, available): order starts at 0
CommandInfoNew(text, enabled, available) ==
    [text |-> text, enabled |-> enabled, available |-> available, order |-> 0]

\* CommandInfo::order(rank)
WithOrder(info, rank) == [info EXCEPT !.order = rank]

OtherCommands == {CommandInfoNew(t, TRUE, TRUE) : t \in OtherTexts}

\* mutant: out is never cleared
ClearedNever(o, vis, force_all) == o

\* mutant: "open help" keeps the default order rank
PushedHelpOpenUnranked(o, vis, force_all) ==
    IF ~vis \/ force_all
    THEN Append(o, CommandInfoNew("HELP_OPEN", TRUE, TRUE))
    ELSE o

\* mutant: a shown popup clears out also when force_all is set
ClearedWhenVisible(o, vis, force_all) == IF vis THEN <<>> ELSE o

\* out after `if self.visible && !force_all { out.clear() }`
Cleared(o, vis, force_all) == IF vis /\ ~force_all THEN <<>> ELSE o

\* out after `if self.visible { push SCROLL; push CLOSE_POPUP }`
PushedPopup(o, vis) ==
    IF vis
    THEN o \o <<CommandInfoNew("SCROLL", TRUE, TRUE),
                CommandInfoNew("CLOSE_POPUP", TRUE, TRUE)>>
    ELSE o

\* out after `if !self.visible || force_all { push HELP_OPEN.order(99) }`
PushedHelpOpen(o, vis, force_all) ==
    IF ~vis \/ force_all
    THEN Append(o, WithOrder(CommandInfoNew("HELP_OPEN", TRUE, TRUE), HelpOpenOrder))
    ELSE o

\* out when commands(out, force_all) returns
Commands(o, vis, force_all) ==
    PushedHelpOpen(PushedPopup(Cleared(o, vis, force_all), vis), vis, force_all)

\* visibility_blocking(self)
VisibilityBlocking(vis) == IF vis THEN "Blocking" ELSE "PassingOn"

commands(force_all) ==
    /\ out' = Commands(out, visible, force_all)
    /\ call' = [op |-> "commands", force_all |-> force_all, prior |-> out,
                ret |-> VisibilityBlocking(visible)]
    /\ UNCHANGED <<cmds, visible, selection, hashfn, input>>

----------------------------------------------------------------------------
(* The component *)

\* HelpComponent::new
Init ==
    /\ cmds = <<>>
    /\ visible = FALSE
    /\ selection = 0
    /\ hashfn \in HashFns
    /\ input = <<>>
    /\ out = <<>>
    /\ call = [op |-> "new"]

SetCmdsCall == \E batch \in SeqsUpTo(CmdPool, MaxCmds) : set_cmds(batch)

EventCall == \E ev \in Events : event(ev)

Next == SetCmdsCall \/ EventCall \/ hide \/ show \/ draw

Spec == Init /\ [][Next]_vars

----------------------------------------------------------------------------
(* set_cmds as a function of the batch: the batch and the hash function are
   drawn in the initial state, the first step applies set_cmds to the batch,
   the second applies it to the list the first one stored *)

InitAgg ==
    /\ cmds = <<>>
    /\ visible = FALSE
    /\ selection = 0
    /\ hashfn \in HashFns
    /\ input \in SeqsUpTo(CommandInfo, MaxBatch)
    /\ out = <<>>
    /\ call = [op |-> "new"]

SetCmdsInput == call.op = "new" /\ set_cmds(input)

\* set_cmds called once more, with the list the first call stored
SetCmdsAgain ==
    /\ call = [op |-> "set_cmds"]
    /\ cmds' = Aggregate(cmds)
    /\ input' = cmds
    /\ call' = [op |-> "set_cmds", again |-> TRUE]
    /\ UNCHANGED <<visible, selection, hashfn, out>>

NextAgg == SetCmdsInput \/ SetCmdsAgain

SpecAgg == InitAgg /\ [][NextAgg]_vars

----------------------------------------------------------------------------
(* commands() as a function of visible, out and force_all: the visibility and
   the prior content of out are drawn in the initial state, the one step calls
   commands *)

InitCmds ==
    /\ cmds = <<>>
    /\ visible \in BOOLEAN
    /\ selection = 0
    /\ hashfn \in HashFns
    /\ input = <<>>
    /\ out \in SeqsUpTo(OtherCommands, MaxOut)
    /\ call = [op |-> "new"]

CommandsCall == call.op = "new" /\ \E force_all \in BOOLEAN : commands(force_all)

NextCmds == CommandsCall

SpecCmds == InitCmds /\ [][NextCmds]_vars

----------------------------------------------------------------------------
(* A shown popup over long lists.  The initial state draws an aggregated
   list of up to MaxEntries entries and a cursor within it; the steps are the
   move keys and draw.  The list opens with `singles` groups of one entry and
   goes on in groups of `run` entries, so that every number of group headers
   above every cursor position occurs.  Labels and group keys are numbered:
   entry i carries label i, the k-th group carries key k, and the hash of a
   key is the key. *)

\* the list of n entries in which entry i opens a group iff i = 1 or starts[i]
ListOf(n, starts) ==
    [i \in 1..n |->
        [text |-> [name |-> i, desc |-> "d",
                   group |-> 1 + Cardinality({j \in 2..i : starts[j]}),
                   hide_help |-> FALSE],
         order |-> 0]]

InitDraw ==
    /\ \E n \in 0..MaxEntries : \E singles \in 0..n : \E run \in 1..Max(1, n) :
           cmds = ListOf(n, [j \in 2..n |->
                                \/ j <= singles + 1
                                \/ (j - (singles + 1)) % run = 0])
    /\ visible = TRUE
    /\ selection \in 0..Max(0, Len(cmds) - 1)
    /\ hashfn = [k \in 1..MaxEntries |-> k]
    /\ input = <<>>
    /\ out = <<>>
    /\ call = [op |-> "new"]

MoveCall == \E ev \in {"MOVE_DOWN", "MOVE_UP"} : event(ev)

NextDraw == MoveCall \/ draw

SpecDraw == InitDraw /\ [][NextDraw]_vars

----------------------------------------------------------------------------
(* Properties *)

AfterSetCmds == call.op = "set_cmds"

\* descriptor identity: label, group, description
Identity(e) == <<e.text.name, e.text.group, e.text.desc>>

Perms(n) == {p \in [1..n -> 1..n] : \A i, j \in 1..n : p[i] = p[j] => i = j}

Permuted(s, p) == [i \in 1..Len(s) |-> s[p[i]]]

\* C1: in every state reachable from new() the cursor satisfies
\* 0 <= cursor <= max(0, len-1), len the length of the aggregated list.
CursorInRange == 0 <= selection /\ selection <= Max(0, Len(cmds) - 1)

\* C2: while Shown, event() reports every key event as consumed; only the
\* close-popup key changes visibility (to Hidden), only the move keys change
\* the cursor, every other key leaves visibility, cursor and list unchanged.
ShownIsModal ==
    [][(visible /\ call'.op = "event" /\ call'.ev \in KeyEvents) =>
          /\ call'.ret = TRUE
          /\ cmds' = cmds
          /\ (call'.ev = "EXIT_POPUP" => ~visible')
          /\ (visible' # visible => call'.ev = "EXIT_POPUP")
          /\ (selection' # selection => call'.ev \in {"MOVE_DOWN", "MOVE_UP"})
          /\ (call'.ev \notin {"EXIT_POPUP", "MOVE_DOWN", "MOVE_UP"} =>
                  UNCHANGED <<visible, selection, cmds>>)]_vars

\* C2 witness: a move-down key, delivered while Shown, was consumed and moved
\* the cursor.
ShownKeyMoved ==
    /\ call.op = "event" /\ call.ev = "MOVE_DOWN" /\ call.ret
    /\ visible /\ selection = 1

\* C3: new() leaves the overlay Hidden; while Hidden, the open-help key moves
\* it to Shown and is consumed, every other event is not consumed and leaves
\* visibility, cursor and list unchanged.
HiddenPassesOn ==
    /\ (call.op = "new" => ~visible)
    /\ [][(~visible /\ call'.op = "event") =>
            IF call'.ev = "OPEN_HELP"
            THEN visible' /\ call'.ret = TRUE
            ELSE call'.ret = FALSE /\ UNCHANGED <<visible, selection, cmds>>]_vars

\* C3 witness: a move-down key arrived while Hidden, with a list it could have
\* moved in, and was passed on.
HiddenKeyPassed ==
    /\ call.op = "event" /\ call.ev = "MOVE_DOWN" /\ ~call.ret
    /\ ~visible /\ Len(cmds) > 1 /\ selection = 0

\* C4: Shown and force_all = false: whatever out held, it afterwards holds
\* exactly "scroll" followed by "close popup".
ShownReplacesCommands ==
    (call.op = "commands" /\ visible /\ ~call.force_all) =>
        /\ Len(out) = 2
        /\ out[1].text = "SCROLL"
        /\ out[2].text = "CLOSE_POPUP"

\* C4 witness: commands() was called on a shown overlay with three commands of
\* other components in out.
ShownDroppedOthers ==
    /\ call.op = "commands" /\ visible /\ ~call.force_all
    /\ Len(call.prior) = 3 /\ Len(out) = 2

\* C5: Hidden: commands() keeps out as it was, in order, and appends exactly
\* one command, "open help" with order rank 99.
HiddenAppendsHelpOpen ==
    (call.op = "commands" /\ ~visible) =>
        /\ Len(out) = Len(call.prior) + 1
        /\ SubSeq(out, 1, Len(call.prior)) = call.prior
        /\ out[Len(out)].text = "HELP_OPEN"
        /\ out[Len(out)].order = 99
        /\ \A i \in DOMAIN out : out[i].text \notin {"SCROLL", "CLOSE_POPUP"}

\* C5 witness: commands() was called on a hidden overlay, unfiltered report
\* demanded, with commands of other components in out.
HiddenKeptOthers ==
    /\ call.op = "commands" /\ ~visible /\ call.force_all
    /\ Len(call.prior) = 2 /\ Len(out) = 3

\* C6: after set_cmds all entries that share a group key are adjacent, for
\* every hash function of the group key, colliding ones included.
GroupsContiguous ==
    AfterSetCmds =>
        \A i, j, k \in DOMAIN cmds :
            (i < k /\ k < j /\ cmds[i].text.group = cmds[j].text.group)
                => cmds[k].text.group = cmds[i].text.group

\* C7: set_cmds yields the same sequence of entries, equal in every field,
\* for every permutation of the batch.
BatchOrderIrrelevant ==
    AfterSetCmds =>
        \A p \in Perms(Len(input)) : Aggregate(Permuted(input, p)) = cmds

\* C8: after set_cmds no two entries have the same label, group and
\* description, and every non-hidden identity of the batch is in the list.
EachDistinctOnce ==
    AfterSetCmds =>
        /\ \A i, j \in DOMAIN cmds : Identity(cmds[i]) = Identity(cmds[j]) => i = j
        /\ \A k \in DOMAIN input :
               ~input[k].text.hide_help =>
                   \E i \in DOMAIN cmds : Identity(cmds[i]) = Identity(input[k])

\* C8 witness: the batch held the same descriptor twice, another one between
\* the two, and the list holds two entries.
DuplicateRemoved ==
    /\ AfterSetCmds /\ Len(input) = 3 /\ Len(cmds) = 2
    /\ input[1] = input[3] /\ Identity(input[1]) # Identity(input[2])
    /\ \A k \in DOMAIN input : ~input[k].text.hide_help

\* C9 (as stated): after set_cmds, within each group the entries of the
\* aggregated list are in ascending order of their order rank.
StoredListOrderSorted ==
    AfterSetCmds =>
        \A i, j \in DOMAIN cmds :
            (i < j /\ cmds[i].text.group = cmds[j].text.group)
                => cmds[i].order <= cmds[j].order

\* C9 (amended): after set_cmds, the entry lines that get_text emits under
\* each group header are in ascending order of their order rank.
LayoutOrderSorted ==
    AfterSetCmds =>
        LET txt == GetText(cmds, selection)
        IN  \A i \in DOMAIN txt :
                (i < Len(txt) /\ txt[i].kind = "entry" /\ txt[i + 1].kind = "entry")
                    => txt[i].cmd.order <= txt[i + 1].cmd.order

\* C9 witness: the stored list holds, in one group, an entry of rank 1 before
\* an entry of rank 0.
StoredListUnsorted ==
    /\ AfterSetCmds
    /\ \E i \in DOMAIN cmds :
           /\ i < Len(cmds)
           /\ cmds[i].text.group = cmds[i + 1].text.group
           /\ cmds[i].order > cmds[i + 1].order

\* C10: after set_cmds the list holds no descriptor hidden from help; an
\* empty or entirely hidden batch yields an empty list.
NoHiddenEntries ==
    AfterSetCmds =>
        /\ \A i \in DOMAIN cmds : ~cmds[i].text.hide_help
        /\ (\A k \in DOMAIN input : input[k].text.hide_help) => cmds = <<>>

\* C10 witness: the batch held hidden and visible descriptors and the list
\* holds the visible one.
HiddenDropped ==
    /\ AfterSetCmds /\ Len(input) = 3 /\ Len(cmds) = 1
    /\ input[1].text.hide_help /\ ~input[2].text.hide_help /\ input[3].text.hide_help

\* the two move keys
MoveKeys == {"MOVE_DOWN", "MOVE_UP"}

AfterDraw == call.op = "draw" /\ call.shown

\* the entry items of a text layout, in displayed order
EntryItems(txt) == SelectSeq(txt, LAMBDA item : item.kind = "entry")

\* index from 0, in the lines of a layout, of the line of the selected entry
SelectedRow(lines) ==
    (CHOOSE i \in DOMAIN lines : lines[i].kind = "entry" /\ lines[i].selected) - 1

\* C11: with a non-empty list and the cursor c within it, a move forward
\* sets the cursor to min(c+1, len-1) and a move backward to max(c-1, 0).
MoveSaturates ==
    [][(visible /\ call'.op = "event" /\ call'.ev \in MoveKeys
            /\ cmds # <<>> /\ selection <= Len(cmds) - 1) =>
          /\ (call'.ev = "MOVE_DOWN" => selection' = Min(selection + 1, Len(cmds) - 1))
          /\ (call'.ev = "MOVE_UP" => selection' = Max(selection - 1, 0))]_vars

\* C11 witness: with 10 entries a move forward has left the cursor at 9.
MovedToLastOfTen ==
    /\ call.op = "event" /\ call.ev = "MOVE_DOWN"
    /\ visible /\ Len(cmds) = 10 /\ selection = 9

\* C12: when the aggregated list is empty, a move forward or backward
\* leaves the cursor and every other field unchanged.
EmptyListMoveIsNoOp ==
    [][(visible /\ cmds = <<>> /\ call'.op = "event" /\ call'.ev \in MoveKeys) =>
          UNCHANGED <<selection, cmds, visible>>]_vars

\* C13: whenever the scroll offset max(0, cursor - 8) is greater than 0, the
\* line of the selected entry, less the offset, is at most 8.
SelectedInTopThird ==
    (AfterDraw /\ call.scroll > 0 /\ selection < Len(cmds)) =>
        SelectedRow(TextLines(call.text)) - call.scroll <= 8

\* C14: set_cmds never changes the cursor or the visibility; the next move
\* delivered while Shown leaves the cursor within [0, max(0, len-1)].
MoveReclamps ==
    [][/\ (call'.op = "set_cmds" => UNCHANGED <<selection, visible>>)
       /\ (visible /\ call'.op = "event" /\ call'.ev \in MoveKeys) =>
              (0 <= selection' /\ selection' <= Max(0, Len(cmds') - 1))]_vars

\* C14 witness: set_cmds has left the cursor of a shown popup beyond the
\* list it stored.
CursorLeftBeyondList ==
    /\ call.op = "set_cmds" /\ visible
    /\ cmds # <<>> /\ selection > Len(cmds) - 1

\* C15: an entry line carries '>' and the selected style iff its position
\* among the entries, in displayed order, equals the cursor; every other
\* entry carries a blank; the description line goes with the marked entry.
MarkerAtCursor ==
    AfterDraw =>
        LET entries == EntryItems(call.text)
        IN  \A k \in DOMAIN entries :
                /\ entries[k].marker = (IF k - 1 = selection THEN ">" ELSE " ")
                /\ entries[k].selected_style = (k - 1 = selection)
                /\ entries[k].desc_line = (k - 1 = selection)

\* C15 witness: a layout of three entries in two groups was drawn with the
\* cursor on the last one.
DrawnWithCursorInSecondGroup ==
    /\ AfterDraw /\ Len(cmds) = 3 /\ selection = 2
    /\ cmds[1].text.group # cmds[3].text.group

\* C16: Shown and force_all = true: out keeps what it held, in order, and
\* "scroll", "close popup" and "open help" (order rank 99) are appended.
ShownUnfilteredAppends ==
    (call.op = "commands" /\ visible /\ call.force_all) =>
        LET n == Len(call.prior)
        IN  /\ Len(out) = n + 3
            /\ SubSeq(out, 1, n) = call.prior
            /\ out[n + 1].text = "SCROLL"
            /\ out[n + 2].text = "CLOSE_POPUP"
            /\ out[n + 3].text = "HELP_OPEN"
            /\ out[n + 3].order = 99

\* C16 witness: commands() was called on a shown overlay, unfiltered report
\* demanded, with three commands of other components in out.
ShownKeptOthers ==
    /\ call.op = "commands" /\ visible /\ call.force_all
    /\ Len(call.prior) = 3 /\ Len(out) = 6

\* C17: opening (open-help key, show) and closing (close-popup key, hide)
\* leave the aggregated list and the cursor unchanged.
OpenCloseKeepCursor ==
    [][(\/ visible' # visible
        \/ call'.op \in {"show", "hide"}
        \/ (call'.op = "event" /\ ~visible /\ call'.ev = "OPEN_HELP")
        \/ (call'.op = "event" /\ visible /\ call'.ev = "EXIT_POPUP")) =>
          UNCHANGED <<cmds, selection>>]_vars

\* C17 witness: the popup was opened by the open-help key with the cursor
\* that an earlier showing left on the third entry.
ReopenedAtCursor ==
    /\ call.op = "event" /\ call.ev = "OPEN_HELP"
    /\ visible /\ selection = 2 /\ Len(cmds) = 3

\* C18: whenever the aggregated list is non-empty, the text layout marks
\* exactly one entry: one '>' line and one description line.
ExactlyOneMarked ==
    (AfterDraw /\ cmds # <<>>) =>
        /\ Cardinality({i \in DOMAIN call.text :
               call.text[i].kind = "entry" /\ call.text[i].marker = ">"}) = 1
        /\ LET lines == TextLines(call.text)
           IN  Cardinality({i \in DOMAIN lines : lines[i].kind = "desc"}) = 1

\* C19: whenever the cursor is in range, the line of the selected entry is
\* among the 21 content rows painted under the scroll offset.
SelectedIsPainted ==
    (AfterDraw /\ selection < Len(cmds)) =>
        /\ SelectedRow(TextLines(call.text)) - call.scroll < 21
        /\ \E i \in DOMAIN call.painted :
               call.painted[i].kind = "entry" /\ call.painted[i].selected

\* C20: set_cmds called with the list a previous set_cmds stored yields the
\* same sequence of entries.
SetCmdsIdempotent ==
    (call = [op |-> "set_cmds", again |-> TRUE]) => cmds = input

\* C20 witness: set_cmds was called again with a stored list of three entries
\* whose groups hash alike and lie interleaved.
AggregatedAgain ==
    /\ call = [op |-> "set_cmds", again |-> TRUE]
    /\ Len(cmds) = 3
    /\ cmds[1].text.group # cmds[2].text.group
    /\ cmds[1].text.group = cmds[3].text.group

====
